---- MODULE Spec2Model ----
(***************************************************************************)
(* Black-Scholes-Merton pricing core (bsm_app/bsm_model.py) as a state     *)
(* machine: the pricing engine, the Greeks and the Newton-Raphson implied  *)
(* volatility solver.                                                      *)
(*                                                                         *)
(* Real numbers.  The code computes in IEEE-754 doubles (numpy / scipy).   *)
(* The model computes in decimal fixed point: a finite number is a sign    *)
(* and a magnitude counted in units of 10^-12 (one "ulp" of the model),    *)
(* the magnitude being an unbounded sequence of base-10^4 limbs, least     *)
(* significant first.  The IEEE special values (NaN, +Inf, -Inf, signed    *)
(* zero) are kept, because the code produces them on degenerate inputs.    *)
(***************************************************************************)
EXTENDS Integers, Sequences, FiniteSets, TLC

(***************************************************************************)
(* Magnitudes: natural numbers as limb sequences                           *)
(***************************************************************************)
Base == 10000

FracLimbs == 3

Max(a, b) == IF a >= b THEN a ELSE b

Min(a, b) == IF a <= b THEN a ELSE b

Limb(m, i) == IF i >= 1 /\ i <= Len(m) THEN m[i] ELSE 0

MaxOf(S) == CHOOSE i \in S : \A j \in S : j <= i

\* The last of a sequence of values.  A tuple's components are evaluated in
\* order, so that Last(<<e1, ..., en>>) evaluates e1, ..., en one after the
\* other and yields en: an operator has its arguments evaluated before its
\* result, as the code's calls do, by Last(<<argument, ..., result>>).
Last(s) == s[Len(s)]

\* drop the zero limbs at the top
NTrim(m) ==
    IF m = <<>> THEN m
    ELSE IF m[Len(m)] # 0 THEN m
    ELSE IF \A i \in 1..Len(m) : m[i] = 0 THEN <<>>
    ELSE SubSeq(m, 1, MaxOf({i \in 1..Len(m) : m[i] # 0}))

\* One pass of carry propagation over column values c, 0 <= c < 2^31: a
\* column keeps its residue, hands the next digit of its quotient one place
\* up and the rest two places up.
Up1(c) == IF c < Base * Base THEN c \div Base ELSE (c \div Base) % Base

Up2(c) == IF c < Base * Base THEN 0 ELSE c \div (Base * Base)

NCarryPass(cols) ==
    IF cols = <<>> THEN cols
    ELSE SubSeq([i \in 1..(Len(cols) + 2) |->
                    (Limb(cols, i) % Base) + Up1(Limb(cols, i - 1)) + Up2(Limb(cols, i - 2))],
                1, Len(cols) + 2)

\* Whether a carry comes into column i, for columns in 0..(2 * Base - 2): some
\* column below overflows and every column between would pass a carry on.
CarryIn(cols, i) ==
    \E j \in 1..(i - 1) :
        cols[j] >= Base /\ \A k \in (j + 1)..(i - 1) : cols[k] = Base - 1

NCarryLook(cols) ==
    IF cols = <<>> THEN cols
    ELSE NTrim(SubSeq([i \in 1..(Len(cols) + 1) |->
                          (Limb(cols, i) + (IF CarryIn(cols, i) THEN 1 ELSE 0)) % Base],
                      1, Len(cols) + 1))

\* The limbs of the number the columns denote, for columns in 0..(2^31 - 1):
\* after two passes every column is at most Base + 1
NCarry(cols) == Last(<<cols, NCarryLook(NCarryPass(NCarryPass(cols)))>>)

NAdd(a, b) ==
    IF a = <<>> THEN b
    ELSE IF b = <<>> THEN a
    ELSE NCarryLook(SubSeq([i \in 1..Max(Len(a), Len(b)) |-> Limb(a, i) + Limb(b, i)],
                           1, Max(Len(a), Len(b))))

\* Whether a borrow comes into column i, for columns in (1 - Base)..(Base - 1)
BorrowIn(cols, i) ==
    \E j \in 1..(i - 1) :
        cols[j] < 0 /\ \A k \in (j + 1)..(i - 1) : cols[k] = 0

NBorrowLook(cols) ==
    IF cols = <<>> THEN cols
    ELSE NTrim(SubSeq([i \in 1..Len(cols) |->
                          (cols[i] - (IF BorrowIn(cols, i) THEN 1 ELSE 0)) % Base],
                      1, Len(cols)))

\* a - b for a >= b
NSub(a, b) ==
    IF b = <<>> THEN a
    ELSE NBorrowLook(SubSeq([i \in 1..Len(a) |-> a[i] - Limb(b, i)], 1, Len(a)))

\* -1, 0, 1 as a < b, a = b, a > b (both trimmed)
NCmp(a, b) ==
    IF Len(a) < Len(b) THEN -1
    ELSE IF Len(a) > Len(b) THEN 1
    ELSE LET df == {i \in 1..Len(a) : a[i] # b[i]}
         IN  IF df = {} THEN 0
             ELSE IF a[MaxOf(df)] < b[MaxOf(df)] THEN -1 ELSE 1

\* the sum of t[lo..hi] for a sequence t of integers, by halves
RECURSIVE ISum(_, _, _)
ISum(t, lo, hi) ==
    IF t = <<>> \/ lo >= hi THEN (IF lo = hi /\ t # <<>> THEN t[lo] ELSE 0)
    ELSE ISum(t, lo, (lo + hi) \div 2) + ISum(t, (lo + hi) \div 2 + 1, hi)

\* column k of the product a * b: the sum of a[i] * b[k + 1 - i], lo <= i <= hi
RECURSIVE NColumn(_, _, _, _, _)
NColumn(a, b, k, lo, hi) ==
    IF lo >= hi THEN (IF lo = hi THEN a[lo] * b[k + 1 - lo] ELSE 0)
    ELSE NColumn(a, b, k, lo, (lo + hi) \div 2)
       + NColumn(a, b, k, (lo + hi) \div 2 + 1, hi)

NMul(a, b) ==
    IF a = <<>> \/ b = <<>> THEN <<>>
    ELSE NCarry(SubSeq([k \in 1..(Len(a) + Len(b) - 1) |->
                           NColumn(a, b, k, Max(1, k + 1 - Len(b)), Min(Len(a), k))],
                       1, Len(a) + Len(b) - 1))

\* a * k for a small natural k
NMulSmall(a, k) ==
    IF a = <<>> THEN a
    ELSE NCarry(SubSeq([i \in 1..Len(a) |-> Limb(a, i) * k], 1, Len(a)))

\* a * Base^n (n >= 0), or a \div Base^(-n) (n < 0)
NShift(a, n) ==
    IF a = <<>> THEN a
    ELSE IF n >= 0 THEN [i \in 1..n |-> 0] \o a
    ELSE IF -n >= Len(a) THEN <<>>
    ELSE SubSeq(a, 1 - n, Len(a))

\* x^m mod k, by halves (k * k below 2^31)
RECURSIVE IPowMod(_, _, _)
IPowMod(x, m, k) ==
    IF m <= 1 THEN (IF m = 0 THEN 1 % k ELSE x % k)
    ELSE (IPowMod(x, m \div 2, k) * IPowMod(x, m - m \div 2, k)) % k

\* the remainder left at limb i by the limbs of a above it, in the division
\* by k: (sum of a[j] * Base^(j - i - 1), j > i) mod k, given pw[m] = Base^(m - 1) mod k
NRemAbove(a, k, pw, i) ==
    ISum(SubSeq([j \in 1..Len(a) |-> IF j > i THEN (a[j] * pw[j - i]) % k ELSE 0],
                1, Len(a)),
         1, Len(a)) % k

NDivSmallBy(a, k, pw) ==
    IF pw = <<>> THEN pw
    ELSE NTrim(SubSeq([i \in 1..Len(a) |->
                          (NRemAbove(a, k, pw, i) * Base + a[i]) \div k],
                      1, Len(a)))

\* floor(a / k) for a natural k, 1 <= k < 46341
NDivSmall(a, k) ==
    IF a = <<>> THEN a
    ELSE NDivSmallBy(a, k, SubSeq([m \in 1..Len(a) |-> IPowMod(Base, m - 1, k)], 1, Len(a)))

\* floor(a / 2)
NHalf(a) == NShift(NMulSmall(a, Base \div 2), -1)

RECURSIVE ToMag(_)
ToMag(n) == IF n = 0 THEN <<>> ELSE <<n % Base>> \o ToMag(n \div Base)

\* Division by Newton's iteration on the reciprocal.  b is normalised (top
\* limb >= Base / 2, n limbs) and f = Base^e; y <= f / b throughout, and every
\* step squares the relative error of y.
NRecipStep(b, e, y) ==
    Last(<<y, NAdd(y, NShift(NMul(y, NSub(NShift(<<1>>, e), NMul(b, y))), -e))>>)

\* the start is right to 3 digits
NRecipStart(b, e) == NShift(ToMag((Base * Base) \div (b[Len(b)] + 1)), e - Len(b) - 1)

\* the steps that make a quotient of w limbs exact to within its correction
NRecipSteps(w) == 1 + Cardinality({c \in {2, 4, 7, 14} : w > c})

RECURSIVE NRecipTo(_, _, _)
NRecipTo(b, e, n) ==
    IF n = 0 THEN NRecipStart(b, e) ELSE NRecipStep(b, e, NRecipTo(b, e, n - 1))

\* floor(Base^e / b) or slightly less
NRecip(b, e) == NRecipTo(b, e, NRecipSteps(e - Len(b) + 1))

\* how many times b still goes into the remainder rem: the quotient taken
\* from the reciprocal falls short by two at most
NGoes(rem, b) == Last(<<rem, Cardinality({j \in 1..6 : NCmp(NMulSmall(b, j), rem) <= 0})>>)

NDivFix(an, bn, q) == Last(<<q, NAdd(q, ToMag(NGoes(NSub(an, NMul(q, bn)), bn)))>>)

NDivWith(an, bn, rc) ==
    Last(<<rc, NDivFix(an, bn, NShift(NMul(an, rc), -(Len(an) + 1)))>>)

\* floor(an / bn) for a normalised bn <= an
NDivNorm(an, bn) == Last(<<an, bn, NDivWith(an, bn, NRecip(bn, Len(an) + 1))>>)

\* the factor that normalises b
NDivScale(b) == Base \div (b[Len(b)] + 1)

\* floor(a / b) for b # 0
NDiv(a, b) ==
    IF NCmp(a, b) < 0 THEN <<>>
    ELSE NDivNorm(NMulSmall(a, NDivScale(b)), NMulSmall(b, NDivScale(b)))

\* floor(sqrt(n)) of a machine integer n < Base^2
ISqrt(n) == CHOOSE s \in 0..(Base - 1) : s * s <= n /\ n < (s + 1) * (s + 1)

\* floor(sqrt(a)): Newton's iteration downward from a start x >= sqrt(a), for
\* as long as it descends
NSqrtStep(a, x) == NHalf(NAdd(x, NDiv(a, x)))

RECURSIVE NSqrtFrom(_, _)
NSqrtNext(a, x, y) == Last(<<y, IF NCmp(y, x) < 0 THEN NSqrtFrom(a, y) ELSE x>>)

NSqrtFrom(a, x) == NSqrtNext(a, x, NSqrtStep(a, x))

\* The start: the root of the two top limbs (of the top limb and a half, if
\* that leaves an even number of digits below), rounded up.
NSqrtStart(a, n) ==
    IF n % 2 = 0
    THEN NShift(ToMag(ISqrt(a[n] * Base + a[n - 1]) + 1), (n - 2) \div 2)
    ELSE NShift(ToMag((ISqrt(a[n] * Base + a[n - 1]) + 1) * 100), (n - 3) \div 2)

NSqrt(a) ==
    CASE a = <<>> -> a
      [] Len(a) = 1 -> ToMag(ISqrt(a[1]))
      [] OTHER -> NSqrtFrom(a, NSqrtStart(a, Len(a)))

(***************************************************************************)
(* Numbers: IEEE-754 values over fixed-point magnitudes                    *)
(***************************************************************************)
Fin(neg, m) == [k |-> "fin", neg |-> neg, m |-> m]

Inf(neg) == [k |-> "inf", neg |-> neg, m |-> <<>>]

NaN == [k |-> "nan", neg |-> FALSE, m |-> <<>>]

\* n * Base^(-j) for a natural n: FDec(5000, 1) is 0.5, FDec(1, 2) is 1e-8
FDec(n, j) == Fin(FALSE, NShift(ToMag(n), FracLimbs - j))

FInt(n) == IF n < 0 THEN Fin(TRUE, NShift(ToMag(-n), FracLimbs)) ELSE FDec(n, 0)

Zero == Fin(FALSE, <<>>)

One == FDec(1, 0)

IsNaN(x) == x.k = "nan"

IsFin(x) == x.k = "fin"

IsZero(x) == x.k = "fin" /\ x.m = <<>>

FNeg(x) == IF IsNaN(x) THEN x ELSE [x EXCEPT !.neg = ~x.neg]

FAbs(x) == IF IsNaN(x) THEN x ELSE [x EXCEPT !.neg = FALSE]

MOne == NShift(<<1>>, FracLimbs)

MMul(a, b) == NShift(NMul(a, b), -FracLimbs)

MDiv(a, b) == NDiv(NShift(a, FracLimbs), b)

FAdd(x, y) ==
    CASE IsNaN(x) \/ IsNaN(y) -> NaN
      [] x.k = "inf" -> IF y.k = "inf" /\ y.neg # x.neg THEN NaN ELSE x
      [] y.k = "inf" -> y
      [] x.neg = y.neg -> Fin(x.neg, NAdd(x.m, y.m))
      [] NCmp(x.m, y.m) = 0 -> Zero
      [] NCmp(x.m, y.m) > 0 -> Fin(x.neg, NSub(x.m, y.m))
      [] OTHER -> Fin(y.neg, NSub(y.m, x.m))

FSub(x, y) == FAdd(x, FNeg(y))

FMul(x, y) ==
    CASE IsNaN(x) \/ IsNaN(y) -> NaN
      [] x.k = "inf" \/ y.k = "inf" ->
            IF IsZero(x) \/ IsZero(y) THEN NaN ELSE Inf(x.neg # y.neg)
      [] OTHER -> Fin(x.neg # y.neg, MMul(x.m, y.m))

FDiv(x, y) ==
    CASE IsNaN(x) \/ IsNaN(y) -> NaN
      [] x.k = "inf" -> IF y.k = "inf" THEN NaN ELSE Inf(x.neg # y.neg)
      [] y.k = "inf" -> Fin(x.neg # y.neg, <<>>)
      [] y.m = <<>> -> IF x.m = <<>> THEN NaN ELSE Inf(x.neg # y.neg)
      [] OTHER -> Fin(x.neg # y.neg, MDiv(x.m, y.m))

\* x < y; false when either is NaN
FLt(x, y) ==
    CASE IsNaN(x) \/ IsNaN(y) -> FALSE
      [] IsZero(x) /\ IsZero(y) -> FALSE
      [] x.neg # y.neg -> x.neg
      [] x.k = "inf" -> IF y.k = "inf" THEN FALSE ELSE x.neg
      [] y.k = "inf" -> ~x.neg
      [] OTHER -> IF x.neg THEN NCmp(x.m, y.m) > 0 ELSE NCmp(x.m, y.m) < 0

\* x * k for a small natural k >= 1
FMulSmall(x, k) == IF IsFin(x) THEN Fin(x.neg, NMulSmall(x.m, k)) ELSE x

(***************************************************************************)
(* Elementary functions of numpy and scipy.stats.norm, on magnitudes       *)
(* (fixed-point values x >= 0) and then on numbers.  Each is computed from *)
(* its series to the model's precision; none is tabulated.                 *)
(***************************************************************************)
\* the integer part of a magnitude below Base
MIntPart(a) == Limb(a, FracLimbs + 1)

\* ln 2 and sqrt(2 pi) to 12 decimals
MLn2 == <<559, 4718, 6931>>

MSqrt2Pi == <<4631, 2827, 5066, 2>>

\* exp(-h) and the normal tail beyond sqrt(2h) are below one ulp for h >= ExpCut
ExpCut == 28

\* exp overflows a double above ExpMax
ExpMax == 709

\* The running products X[1], X[1] X[2], X[1] X[2] X[3], ... of a sequence of
\* magnitudes: after the round with stride s, X[i] holds the product of the
\* (up to) 2s factors ending at i.
MScanRound(X, s) ==
    SubSeq([i \in 1..Len(X) |-> IF i > s THEN MMul(X[i], X[i - s]) ELSE X[i]],
           1, Len(X))

RECURSIVE MScan(_, _)
MScan(X, s) ==
    IF X = <<>> \/ s >= Len(X) THEN X ELSE MScan(MScanRound(X, s), 2 * s)

MaxLen(X) == MaxOf({0} \cup {Len(X[n]) : n \in 1..Len(X)})

\* the sum of a sequence of magnitudes, column by column
NSumAll(X) ==
    IF X = <<>> THEN <<>>
    ELSE NCarry(SubSeq([i \in 1..MaxLen(X) |->
                           ISum(SubSeq([n \in 1..Len(X) |-> Limb(X[n], i)], 1, Len(X)),
                                1, Len(X))],
                       1, MaxLen(X)))

\* 1 + r[1] + r[1] r[2] + r[1] r[2] r[3] + ... for the ratios r of a series
MSeries(r) == Last(<<r, NAdd(MOne, NSumAll(MScan(r, 1)))>>)

\* e^a = sum of a^n / n! for 0 <= a < 1: the ratio of term n to the one before
\* is a / n, and 1 / 16! is below one ulp
ExpTerms == 16

MExpSmall(a) ==
    IF a = <<>> THEN MOne
    ELSE MSeries(SubSeq([n \in 1..ExpTerms |-> NDivSmall(a, n)], 1, ExpTerms))

RECURSIVE MSquareTimes(_, _)
MSquareTimes(v, k) ==
    IF k = 0 \/ v = <<>> THEN v ELSE MSquareTimes(MMul(v, v), k - 1)

\* e^a for 0 <= a < 1024: e^(a / 2^k) for the k that brings a / 2^k below 1,
\* squared k times
MExpHalvings(a) == Cardinality({j \in 0..9 : MIntPart(a) >= 2^j})

MExpBy(a, k) == MSquareTimes(MExpSmall(NDivSmall(a, 2^k)), k)

MExp(a) == Last(<<a, MExpBy(a, MExpHalvings(a))>>)

\* For a magnitude a > 0, the k with 3/4 <= a / 2^k < 3/2: up >= 0 halvings,
\* or down >= 0 doublings; LnReach of either are counted at a time
LnReach == 15

MLnUp(a) ==
    Cardinality({j \in 1..LnReach :
                    NCmp(NMulSmall(a, 4), NMulSmall(MOne, 3 * 2^j)) >= 0})

MLnDown(a) ==
    Cardinality({j \in 1..LnReach :
                    NCmp(NMulSmall(a, 2 * 2^j), NMulSmall(MOne, 3)) < 0})

\* artanh(y) = y * (1 + y^2 / 3 + y^4 / 5 + ...) for y^2 <= 1/25
AtanhTerms == 10

\* P[n] / (2n + 1) for the powers P[n] = y^(2n)
MOddQuotients(P) ==
    IF P = <<>> THEN P
    ELSE SubSeq([n \in 1..Len(P) |-> NDivSmall(P[n], 2 * n + 1)], 1, Len(P))

MAtanh(y, y2) ==
    IF y2 = <<>> THEN y
    ELSE MMul(y, NAdd(MOne, NSumAll(MOddQuotients(
                 MScan(SubSeq([j \in 1..AtanhTerms |-> y2], 1, AtanhTerms), 1)))))

MAtanhOf(y) == Last(<<y, MAtanh(y, MMul(y, y))>>)

\* |a - b|
NDist(a, b) == IF NCmp(a, b) >= 0 THEN NSub(a, b) ELSE NSub(b, a)

\* ln of a magnitude m in [3/4, 3/2], as a number: 2 artanh((m - 1) / (m + 1))
MLnNear1(m) ==
    Last(<<m, Fin(NCmp(m, MOne) < 0,
                  NMulSmall(MAtanhOf(MDiv(NDist(m, MOne), NAdd(m, MOne))), 2))>>)

\* m / 2^up or m * 2^down
MReduced(m, up, down) == IF up > 0 THEN NDivSmall(m, 2^up) ELSE NMulSmall(m, 2^down)

\* ln m = ln(m / 2^k) + k ln 2 for a magnitude m > 0; what LnReach steps do
\* not bring near 1 is reduced again
RECURSIVE MLog(_)
MLogBy(m, up, down) ==
    FAdd(IF up = LnReach \/ down = LnReach
         THEN MLog(MReduced(m, up, down))
         ELSE MLnNear1(MReduced(m, up, down)),
         Fin(down > 0, NMulSmall(MLn2, up + down)))

MLog(m) == Last(<<m, MLogBy(m, MLnUp(m), IF MLnUp(m) > 0 THEN 0 ELSE MLnDown(m))>>)

\* The number of terms of a + a^3/3 + a^5/(3*5) + ... that matter, for a^2 = a2
MTailTerms(a2) == 16 + MIntPart(a2) + Min(MIntPart(a2), 8)

\* a + a^3/3 + a^5/(3*5) + ... : the ratio of term n to the one before is
\* a^2 / (2n + 1)
MTailSeries(a, a2) ==
    IF a2 = <<>> THEN a
    ELSE MMul(a, MSeries(SubSeq([n \in 1..MTailTerms(a2) |-> NDivSmall(a2, 2 * n + 1)],
                                1, MTailTerms(a2))))

\* np.sqrt
FSqrt(x) ==
    CASE ~IsFin(x) -> IF x.k = "inf" /\ ~x.neg THEN x ELSE NaN
      [] x.m = <<>> -> x
      [] x.neg -> NaN
      [] OTHER -> Fin(FALSE, NSqrt(NShift(x.m, FracLimbs)))

\* np.log
FLog(x) ==
    CASE IsNaN(x) -> NaN
      [] IsZero(x) -> Inf(TRUE)
      [] x.neg -> NaN
      [] x.k = "inf" -> x
      [] OTHER -> MLog(x.m)

\* e^a, or e^(-a) as its reciprocal
MExpSigned(neg, ex) == Last(<<ex, IF neg THEN MDiv(MOne, ex) ELSE ex>>)

\* np.exp (magnitudes to 160 are within the reach of NMul)
FExp(x) ==
    CASE IsNaN(x) -> NaN
      [] x.k = "inf" -> IF x.neg THEN Zero ELSE x
      [] x.neg /\ NCmp(x.m, NMulSmall(MOne, ExpCut)) >= 0 -> Zero
      [] ~x.neg /\ NCmp(x.m, NMulSmall(MOne, ExpMax)) > 0 -> Inf(FALSE)
      [] OTHER -> Fin(FALSE, MExpSigned(x.neg, MExp(x.m)))

\* sqrt(2 pi) e^h
MBell(h) == MMul(MSqrt2Pi, MExp(h))

\* 1 / (sqrt(2 pi) e^(a2 / 2))
MPdf(a2) ==
    Last(<<a2, IF NCmp(NHalf(a2), NMulSmall(MOne, ExpCut)) >= 0 THEN <<>>
               ELSE MDiv(MOne, MBell(NHalf(a2)))>>)

\* scipy.stats.norm.pdf(x, 0.0, 1.0)
NormPdf(x) ==
    CASE IsNaN(x) -> NaN
      [] x.k = "inf" -> Zero
      [] OTHER -> Fin(FALSE, MPdf(MMul(x.m, x.m)))

\* an area of the normal density on one side of 0 is at most 1/2
MHalfCap(ar) == IF NCmp(ar, NHalf(MOne)) > 0 THEN NHalf(MOne) ELSE ar

\* P(0 < Z < a) for a magnitude a with a^2 = a2
MHalfArea(a, a2) ==
    Last(<<a2, IF NCmp(NHalf(a2), NMulSmall(MOne, ExpCut)) >= 0 THEN NHalf(MOne)
               ELSE MHalfCap(MDiv(MTailSeries(a, a2), MBell(NHalf(a2))))>>)

\* P(Z < a) for a magnitude a
MUpper(a) == NAdd(NHalf(MOne), MHalfArea(a, MMul(a, a)))

\* the upper half is 1/2 + area, the lower half its complement
MCdf(neg, upper) == IF neg THEN NSub(MOne, upper) ELSE upper

\* scipy.stats.norm.cdf(x, 0.0, 1.0)
NormCdf(x) ==
    CASE IsNaN(x) -> NaN
      [] x.k = "inf" -> IF x.neg THEN Zero ELSE One
      [] OTHER -> Fin(FALSE, MCdf(x.neg, MUpper(x.m)))

(***************************************************************************)
(* The pricing engine and the Greeks (bsm_model.py)                        *)
(***************************************************************************)
\* The outcome of a call: a returned number, a returned None, or a raised
\* exception.
Returned(v) == [t |-> "value", v |-> v, exc |-> "none"]

ReturnedNone == [t |-> "None", v |-> NaN, exc |-> "none"]

Raised(e) == [t |-> "raise", v |-> NaN, exc |-> e]

NoOutcome == [t |-> "pending", v |-> NaN, exc |-> "none"]

\* str.lower() on the option_type strings the model passes
Lower(s) ==
    CASE s = "Call" -> "call"
      [] s = "Put"  -> "put"
      [] s = "PUT"  -> "put"
      [] OTHER      -> s

Half == FDec(5000, 1)

\* A variant of line 23 that leaves out the 0.5
black_scholes_d1_unhalved(S, K, T, r, sigma) ==
    FDiv(FAdd(FLog(FDiv(S, K)),
              FMul(FAdd(r, FMul(sigma, sigma)), T)),
         FMul(sigma, FSqrt(T)))

\* bsm_model.py line 23
black_scholes_d1(S, K, T, r, sigma) ==
    FDiv(FAdd(FLog(FDiv(S, K)),
              FMul(FAdd(r, FMul(Half, FMul(sigma, sigma))), T)),
         FMul(sigma, FSqrt(T)))

\* bsm_model.py line 24
black_scholes_d2(d1, T, sigma) == FSub(d1, FMul(sigma, FSqrt(T)))

\* A variant of lines 27-36 whose put leaves the strike undiscounted
black_scholes_price_undiscounted(S, K, T, r, option_type, d1, d2) ==
    Last(<<d2,
           CASE Lower(option_type) = "call" ->
                  Returned(FSub(FMul(S, NormCdf(d1)),
                                FMul(FMul(K, FExp(FMul(FNeg(r), T))), NormCdf(d2))))
             [] Lower(option_type) = "put" ->
                  Returned(FSub(FMul(K, NormCdf(FNeg(d2))),
                                FMul(S, NormCdf(FNeg(d1)))))
             [] OTHER -> Raised("ValueError")>>)

\* lines 27-36, with d1 and d2 at hand
black_scholes_price(S, K, T, r, option_type, d1, d2) ==
    Last(<<d2,
           CASE Lower(option_type) = "call" ->
                  Returned(FSub(FMul(S, NormCdf(d1)),
                                FMul(FMul(K, FExp(FMul(FNeg(r), T))), NormCdf(d2))))
             [] Lower(option_type) = "put" ->
                  Returned(FSub(FMul(FMul(K, FExp(FMul(FNeg(r), T))), NormCdf(FNeg(d2))),
                                FMul(S, NormCdf(FNeg(d1)))))
             [] OTHER -> Raised("ValueError")>>)

\* lines 24-36, with d1 at hand
black_scholes_from(S, K, T, r, sigma, option_type, d1) ==
    Last(<<d1, black_scholes_price(S, K, T, r, option_type, d1,
                                   black_scholes_d2(d1, T, sigma))>>)

black_scholes(S, K, T, r, sigma, option_type) ==
    black_scholes_from(S, K, T, r, sigma, option_type, black_scholes_d1(S, K, T, r, sigma))

delta_d1(S, K, T, r, sigma) ==
    FDiv(FAdd(FLog(FDiv(S, K)),
              FMul(FAdd(r, FMul(Half, FMul(sigma, sigma))), T)),
         FMul(sigma, FSqrt(T)))

\* lines 43-48, with d1 at hand
delta_from(option_type, d1) ==
    Last(<<d1,
           CASE Lower(option_type) = "call" -> Returned(NormCdf(d1))
             [] Lower(option_type) = "put" -> Returned(FSub(NormCdf(d1), One))
             [] OTHER -> Raised("ValueError")>>)

delta(S, K, T, r, sigma, option_type) ==
    delta_from(option_type, delta_d1(S, K, T, r, sigma))

gamma_d1(S, K, T, r, sigma) ==
    FDiv(FAdd(FLog(FDiv(S, K)),
              FMul(FAdd(r, FMul(Half, FMul(sigma, sigma))), T)),
         FMul(sigma, FSqrt(T)))

\* line 53, with d1 at hand
gamma_from(S, T, sigma, d1) ==
    Last(<<d1, Returned(FDiv(NormPdf(d1), FMul(FMul(S, sigma), FSqrt(T))))>>)

gamma(S, K, T, r, sigma) == gamma_from(S, T, sigma, gamma_d1(S, K, T, r, sigma))

\* A variant of line 58 that takes sigma^2 where the others take 0.5 sigma^2
vega_d1_drifting(S, K, T, r, sigma) ==
    FDiv(FAdd(FLog(FDiv(S, K)),
              FMul(FAdd(r, FMul(sigma, sigma)), T)),
         FMul(sigma, FSqrt(T)))

vega_d1(S, K, T, r, sigma) ==
    FDiv(FAdd(FLog(FDiv(S, K)),
              FMul(FAdd(r, FMul(Half, FMul(sigma, sigma))), T)),
         FMul(sigma, FSqrt(T)))

\* line 59, with d1 at hand
vega_from(S, T, d1) == Last(<<d1, Returned(FMul(FMul(S, NormPdf(d1)), FSqrt(T)))>>)

vega(S, K, T, r, sigma) == vega_from(S, T, vega_d1(S, K, T, r, sigma))

theta_d1(S, K, T, r, sigma) ==
    FDiv(FAdd(FLog(FDiv(S, K)),
              FMul(FAdd(r, FMul(Half, FMul(sigma, sigma))), T)),
         FMul(sigma, FSqrt(T)))

theta_d2(d1, T, sigma) == FSub(d1, FMul(sigma, FSqrt(T)))

\* line 66
theta_left_term(S, T, sigma, d1) ==
    FDiv(FMul(FMul(FNeg(S), NormPdf(d1)), sigma), FMulSmall(FSqrt(T), 2))

\* lines 68-75, with d2 and left_term at hand
theta_sum(K, T, r, option_type, d2, left_term) ==
    Last(<<d2, left_term,
           CASE Lower(option_type) = "call" ->
                  Returned(FAdd(left_term,
                      FMul(FMul(FMul(FNeg(r), K), FExp(FMul(FNeg(r), T))), NormCdf(d2))))
             [] Lower(option_type) = "put" ->
                  Returned(FAdd(left_term,
                      FMul(FMul(FMul(r, K), FExp(FMul(FNeg(r), T))), NormCdf(FNeg(d2)))))
             [] OTHER -> Raised("ValueError")>>)

\* lines 64-75, with d1 at hand
theta_from(S, K, T, r, sigma, option_type, d1) ==
    Last(<<d1, theta_sum(K, T, r, option_type, theta_d2(d1, T, sigma),
                         theta_left_term(S, T, sigma, d1))>>)

theta(S, K, T, r, sigma, option_type) ==
    theta_from(S, K, T, r, sigma, option_type, theta_d1(S, K, T, r, sigma))

rho_d1(S, K, T, r, sigma) ==
    FDiv(FAdd(FLog(FDiv(S, K)),
              FMul(FAdd(r, FMul(Half, FMul(sigma, sigma))), T)),
         FMul(sigma, FSqrt(T)))

rho_d2(d1, T, sigma) == FSub(d1, FMul(sigma, FSqrt(T)))

\* A variant of lines 82-87 whose else branch takes the put's formula instead
\* of raising
rho_from_defaulting(K, T, r, option_type, d2) ==
    Last(<<d2,
           CASE Lower(option_type) = "call" ->
                  Returned(FMul(FMul(FMul(K, T), FExp(FMul(FNeg(r), T))), NormCdf(d2)))
             [] OTHER ->
                  Returned(FMul(FMul(FMul(FNeg(K), T), FExp(FMul(FNeg(r), T))),
                                NormCdf(FNeg(d2))))>>)

\* lines 82-87, with d2 at hand
rho_from(K, T, r, option_type, d2) ==
    Last(<<d2,
           CASE Lower(option_type) = "call" ->
                  Returned(FMul(FMul(FMul(K, T), FExp(FMul(FNeg(r), T))), NormCdf(d2)))
             [] Lower(option_type) = "put" ->
                  Returned(FMul(FMul(FMul(FNeg(K), T), FExp(FMul(FNeg(r), T))),
                                NormCdf(FNeg(d2))))
             [] OTHER -> Raised("ValueError")>>)

rho(S, K, T, r, sigma, option_type) ==
    rho_from(K, T, r, option_type, rho_d2(rho_d1(S, K, T, r, sigma), T, sigma))

(***************************************************************************)
(* The implied-volatility solver's constants (bsm_model.py lines 101-117)   *)
(***************************************************************************)
ITERATIONS == 100

\* A variant of line 102 with a tolerance of 20
TOLERENCE_coarse == FInt(20)

\* 1.0e-5
TOLERENCE == FDec(1000, 2)

\* the 1e-6 below which vega stops the search
VegaFloor == FDec(100, 2)

\* the initial guess 0.5
InitialGuess == FDec(5000, 1)

\* implied_volatility as a function of its arguments: the loop of lines
\* 106-120 from pass n with the volatility sg, and line 122 after the last pass
RECURSIVE implied_volatility_from(_, _, _, _, _, _, _, _)
\* lines 110-120 of one pass, p and v being the outcomes of lines 107 and 108
implied_volatility_pass(market_price, S, K, T, r, option_type, sg, n, p, v) ==
    CASE p.t = "raise" -> p
      [] p.t # "raise" /\ FLt(FAbs(FSub(p.v, market_price)), TOLERENCE) -> Returned(sg)
      [] p.t # "raise" /\ ~FLt(FAbs(FSub(p.v, market_price)), TOLERENCE)
            /\ FLt(FAbs(v.v), VegaFloor) -> ReturnedNone
      [] OTHER ->
            implied_volatility_from(market_price, S, K, T, r, option_type,
                FSub(sg, FDiv(FSub(p.v, market_price), v.v)), n + 1)

implied_volatility_from(market_price, S, K, T, r, option_type, sg, n) ==
    IF n = ITERATIONS
    THEN ReturnedNone
    ELSE implied_volatility_pass(market_price, S, K, T, r, option_type, sg, n,
             black_scholes(S, K, T, r, sg, option_type), vega(S, K, T, r, sg))

implied_volatility(market_price, S, K, T, r, option_type) ==
    implied_volatility_from(market_price, S, K, T, r, option_type, InitialGuess, 0)

(***************************************************************************)
(* Callers: the quotes, volatilities, kinds and market prices they pass     *)
(***************************************************************************)
Quote(S0, K0, T0, r0) == [S |-> S0, K |-> K0, T |-> T0, r |-> r0]

\* Quotes with S > 0 and K > 0: at the money, out of the money, far out of the
\* money, at the money a third of a day before expiry (T = 0.001), and three
\* with T <= 0.
Quotes ==
    { Quote(FInt(100), FInt(100), FInt(1), FDec(500, 1)),
      Quote(FInt(40), FInt(45), FDec(3300, 1), FDec(300, 1)),
      Quote(FInt(10), FInt(60), FDec(3300, 1), FDec(500, 1)),
      Quote(FInt(100), FInt(100), FDec(10, 1), FDec(500, 1)),
      Quote(FInt(100), FInt(100), Zero, FDec(500, 1)),
      Quote(FInt(100), FInt(90), Zero, FDec(500, 1)),
      Quote(FInt(100), FInt(100), FInt(-1), FDec(500, 1)) }

\* Volatilities -0.2, 0, 0.2, ..., 0.2 * MaxVolStep
MaxVolStep == 2

Vol(k) == IF k < 0 THEN FNeg(FDec(2000 * (-k), 1)) ELSE FDec(2000 * k, 1)

Vols == {Vol(k) : k \in (-1)..MaxVolStep}

Kinds == {"call", "Put", "straddle"}

\* 0.0001
MarketPrices == {FDec(1, 1)}

\* a local or argument that holds nothing yet
Unset == NaN

(***************************************************************************)
(* State: the call in progress, its arguments and locals, and its outcome   *)
(***************************************************************************)
\* pc            where the call in progress stands: "idle", "loop", "test", "done"
\* fn            the function called
\* S .. market_price   the arguments (sigma is the solver's local)
\* i, price, curr_vega, diff   the solver's locals
\* result        the outcome of the call
\* n_price, n_vega   how often the solver has called black_scholes and vega
\* evaluated     the solver's evaluations so far: sigma, price and vega of each
\* target        the volatility a round trip started from
VARIABLES pc, fn, S, K, T, r, sigma, option_type, market_price,
          i, price, curr_vega, diff, result, n_price, n_vega, evaluated, target

vars == <<pc, fn, S, K, T, r, sigma, option_type, market_price,
          i, price, curr_vega, diff, result, n_price, n_vega, evaluated, target>>

\* calls         concurrent calls: for each thread the frame of the call it is
\*               in, with that call's arguments, locals and outcome
VARIABLES calls

\* db_created      the file options_analysis.db holds the table bsm_scenarios
\* bsm_scenarios   the rows of the table, in rowid order
\* sqlite_sequence the largest id AUTOINCREMENT has given out
\* save_calls      history: the data_dict of every save_scenario call
\* history_df      the rows load_scenarios returned last
\* last_call       history: the function of database.py called last
VARIABLES db_created, bsm_scenarios, sqlite_sequence, save_calls, history_df, last_call

store == <<db_created, bsm_scenarios, sqlite_sequence, save_calls, history_df, last_call>>

\* page_pc      where the run of the page 2_Implied_Volatility.py is
\* view_choice  the view of that run
\* fetched      what the run got from the market: ticker, price, expiries (the
\*              selected one in the 2D view) and the shape of the two chains
\* page_T       the module-level name T of the page
\* warned       st.warning of line 168 was shown
\* iv_calls     history: the invocations of bsm.implied_volatility of the run
\* page_error   the exception that ended the run, if any
VARIABLES page_pc, view_choice, fetched, page_T, warned, iv_calls, page_error

page == <<page_pc, view_choice, fetched, page_T, warned, iv_calls, page_error>>

\* the state outside the single call above
outside_core == <<calls, store, page>>

\* a name that is not bound
Unbound == [k |-> "unbound", neg |-> FALSE, m |-> <<>>]

NothingFetched == [ticker |-> <<>>, S |-> Unset, expiries |-> <<>>, calls |-> <<>>, puts |-> <<>>]

allvars == <<vars, outside_core>>

Threads == {1, 2}

\* A frame: where the call stands ("idle", "d1", "body", "loop", "test",
\* "done"), the function, its arguments, its locals and its outcome
Frame(pc0, f, a, sg, d, n, p, v, df, out) ==
    [pc |-> pc0, fn |-> f, S |-> a.S, K |-> a.K, T |-> a.T, r |-> a.r,
     sigma |-> sg, option_type |-> a.option_type, market_price |-> a.market_price,
     d1 |-> d, i |-> n, price |-> p, curr_vega |-> v, diff |-> df, result |-> out]

NoArguments ==
    [S |-> Unset, K |-> Unset, T |-> Unset, r |-> Unset, sigma |-> Unset,
     option_type |-> "call", market_price |-> Unset]

IdleFrame == Frame("idle", "none", NoArguments, Unset, Unset, 0, Unset, Unset, Unset, NoOutcome)

Functions == {"black_scholes", "delta", "gamma", "vega", "theta", "rho",
              "implied_volatility"}

Init ==
    /\ pc = "idle"
    /\ fn = "none"
    /\ S = Unset /\ K = Unset /\ T = Unset /\ r = Unset
    /\ sigma = Unset
    /\ option_type = "call"
    /\ market_price = Unset
    /\ i = 0
    /\ price = Unset /\ curr_vega = Unset /\ diff = Unset
    /\ result = NoOutcome
    /\ n_price = 0 /\ n_vega = 0
    /\ evaluated = <<>>
    /\ target = Unset
    /\ calls = [th \in Threads |-> IdleFrame]
    /\ db_created = FALSE
    /\ bsm_scenarios = <<>>
    /\ sqlite_sequence = 0
    /\ save_calls = <<>>
    /\ history_df = <<>>
    /\ last_call = "none"
    /\ page_pc = "idle"
    /\ view_choice = "none"
    /\ fetched = NothingFetched
    /\ page_T = Unbound
    /\ warned = FALSE
    /\ iv_calls = <<>>
    /\ page_error = "none"

\* A call of an engine function f with quote q, volatility v and kind k, which
\* ends with the outcome out.
EngineCall(f, q, v, k, out) ==
    /\ pc = "idle"
    /\ pc' = "done"
    /\ fn' = f
    /\ S' = q.S /\ K' = q.K /\ T' = q.T /\ r' = q.r
    /\ sigma' = v
    /\ option_type' = k
    /\ result' = out
    /\ UNCHANGED <<market_price, i, price, curr_vega, diff, n_price, n_vega,
                   evaluated, target>>
    /\ UNCHANGED outside_core

Call_black_scholes ==
    \E q \in Quotes, v \in Vols, k \in Kinds :
        EngineCall("black_scholes", q, v, k, black_scholes(q.S, q.K, q.T, q.r, v, k))

Call_delta ==
    \E q \in Quotes, v \in Vols, k \in Kinds :
        EngineCall("delta", q, v, k, delta(q.S, q.K, q.T, q.r, v, k))

\* gamma and vega take no kind
Call_gamma ==
    \E q \in Quotes, v \in Vols :
        EngineCall("gamma", q, v, "call", gamma(q.S, q.K, q.T, q.r, v))

Call_vega ==
    \E q \in Quotes, v \in Vols :
        EngineCall("vega", q, v, "call", vega(q.S, q.K, q.T, q.r, v))

Call_theta ==
    \E q \in Quotes, v \in Vols, k \in Kinds :
        EngineCall("theta", q, v, k, theta(q.S, q.K, q.T, q.r, v, k))

Call_rho ==
    \E q \in Quotes, v \in Vols, k \in Kinds :
        EngineCall("rho", q, v, k, rho(q.S, q.K, q.T, q.r, v, k))

\* implied_volatility, lines 101-104: the loop is entered with sigma = 0.5
Call_implied_volatility ==
    /\ pc = "idle"
    /\ \E q \in Quotes, k \in Kinds, mp \in MarketPrices :
          /\ S' = q.S /\ K' = q.K /\ T' = q.T /\ r' = q.r
          /\ option_type' = k
          /\ market_price' = mp
    /\ pc' = "loop"
    /\ fn' = "implied_volatility"
    /\ sigma' = InitialGuess
    /\ i' = 0
    /\ UNCHANGED <<price, curr_vega, diff, result, n_price, n_vega, evaluated, target>>
    /\ UNCHANGED outside_core

\* The quote's constraints on maturity and volatility (T > 0, sigma > 0)
Positive(x) == FLt(Zero, x)

\* A caller that has priced a quote with T > 0 and sigma > 0 asks the solver
\* for the volatility of that price.
RoundTrip ==
    /\ pc = "done"
    /\ fn = "black_scholes"
    /\ result.t = "value"
    /\ Positive(T) /\ Positive(sigma)
    /\ pc' = "loop"
    /\ fn' = "implied_volatility"
    /\ market_price' = result.v
    /\ target' = sigma
    /\ sigma' = InitialGuess
    /\ i' = 0
    /\ result' = NoOutcome
    /\ UNCHANGED <<S, K, T, r, option_type, price, curr_vega, diff, n_price, n_vega,
                   evaluated>>
    /\ UNCHANGED outside_core

\* A variant of lines 106-110 that answers an exception of black_scholes with
\* None
IV_Evaluated_swallowing(p, v) ==
    IF p.t = "raise"
    THEN /\ pc' = "done"
         /\ result' = ReturnedNone
         /\ n_price' = n_price + 1
         /\ UNCHANGED <<price, curr_vega, diff, n_vega, evaluated>>
    ELSE /\ pc' = "test"
         /\ price' = p.v
         /\ curr_vega' = v.v
         /\ diff' = FSub(p.v, market_price)
         /\ n_price' = n_price + 1
         /\ n_vega' = n_vega + 1
         /\ evaluated' = Append(evaluated, [sigma |-> sigma, price |-> p.v, vega |-> v.v])
         /\ UNCHANGED result

\* lines 106-110: one pass evaluates the price, then vega, then their
\* difference from the market price; an exception of black_scholes leaves the
\* solver at once.  p and v are the outcomes of the two calls.
IV_Evaluated(p, v) ==
    IF p.t = "raise"
    THEN /\ pc' = "done"
         /\ result' = p
         /\ n_price' = n_price + 1
         /\ UNCHANGED <<price, curr_vega, diff, n_vega, evaluated>>
    ELSE /\ pc' = "test"
         /\ price' = p.v
         /\ curr_vega' = v.v
         /\ diff' = FSub(p.v, market_price)
         /\ n_price' = n_price + 1
         /\ n_vega' = n_vega + 1
         /\ evaluated' = Append(evaluated, [sigma |-> sigma, price |-> p.v, vega |-> v.v])
         /\ UNCHANGED result

\* A variant of lines 107-108 with a d1 of the solver's own for the price
IV_Evaluate_inlining ==
    /\ pc = "loop"
    /\ i < ITERATIONS
    /\ IV_Evaluated(black_scholes_from(S, K, T, r, sigma, option_type,
                                       vega_d1_drifting(S, K, T, r, sigma)),
                    vega(S, K, T, r, sigma))
    /\ UNCHANGED <<fn, S, K, T, r, sigma, option_type, market_price, i, target>>
    /\ UNCHANGED outside_core

IV_Evaluate ==
    /\ pc = "loop"
    /\ i < ITERATIONS
    /\ IV_Evaluated(black_scholes(S, K, T, r, sigma, option_type),
                    vega(S, K, T, r, sigma))
    /\ UNCHANGED <<fn, S, K, T, r, sigma, option_type, market_price, i, target>>
    /\ UNCHANGED outside_core

Converged == FLt(FAbs(diff), TOLERENCE)

VegaTooSmall == FLt(FAbs(curr_vega), VegaFloor)

\* A variant of lines 113-114 that returns the next Newton iterate
IV_Converged_stepping ==
    /\ pc = "test"
    /\ Converged
    /\ pc' = "done"
    /\ result' = Returned(FSub(sigma, FDiv(diff, curr_vega)))
    /\ UNCHANGED <<fn, S, K, T, r, sigma, option_type, market_price,
                   i, price, curr_vega, diff, n_price, n_vega, evaluated, target>>
    /\ UNCHANGED outside_core

\* lines 113-114
IV_Converged ==
    /\ pc = "test"
    /\ Converged
    /\ pc' = "done"
    /\ result' = Returned(sigma)
    /\ UNCHANGED <<fn, S, K, T, r, sigma, option_type, market_price,
                   i, price, curr_vega, diff, n_price, n_vega, evaluated, target>>
    /\ UNCHANGED outside_core

\* A variant of lines 117-118 that returns the volatility it stopped at
IV_VegaGuard_returning_sigma ==
    /\ pc = "test"
    /\ ~Converged
    /\ VegaTooSmall
    /\ pc' = "done"
    /\ result' = Returned(sigma)
    /\ UNCHANGED <<fn, S, K, T, r, sigma, option_type, market_price,
                   i, price, curr_vega, diff, n_price, n_vega, evaluated, target>>
    /\ UNCHANGED outside_core

\* lines 117-118
IV_VegaGuard ==
    /\ pc = "test"
    /\ ~Converged
    /\ VegaTooSmall
    /\ pc' = "done"
    /\ result' = ReturnedNone
    /\ UNCHANGED <<fn, S, K, T, r, sigma, option_type, market_price,
                   i, price, curr_vega, diff, n_price, n_vega, evaluated, target>>
    /\ UNCHANGED outside_core

\* A variant of line 120 that adds the Newton step
IV_Update_adding ==
    /\ pc = "test"
    /\ ~Converged
    /\ ~VegaTooSmall
    /\ sigma' = FAdd(sigma, FDiv(diff, curr_vega))
    /\ i' = i + 1
    /\ pc' = "loop"
    /\ UNCHANGED <<fn, S, K, T, r, option_type, market_price,
                   price, curr_vega, diff, result, n_price, n_vega, evaluated, target>>
    /\ UNCHANGED outside_core

\* line 120 and the loop's next i
IV_Update ==
    /\ pc = "test"
    /\ ~Converged
    /\ ~VegaTooSmall
    /\ sigma' = FSub(sigma, FDiv(diff, curr_vega))
    /\ i' = i + 1
    /\ pc' = "loop"
    /\ UNCHANGED <<fn, S, K, T, r, option_type, market_price,
                   price, curr_vega, diff, result, n_price, n_vega, evaluated, target>>
    /\ UNCHANGED outside_core

\* A variant of line 122 that returns the last volatility
IV_Exhausted_returning_sigma ==
    /\ pc = "loop"
    /\ i = ITERATIONS
    /\ pc' = "done"
    /\ result' = Returned(sigma)
    /\ UNCHANGED <<fn, S, K, T, r, sigma, option_type, market_price,
                   i, price, curr_vega, diff, n_price, n_vega, evaluated, target>>
    /\ UNCHANGED outside_core

\* line 122: the loop ran out
IV_Exhausted ==
    /\ pc = "loop"
    /\ i = ITERATIONS
    /\ pc' = "done"
    /\ result' = ReturnedNone
    /\ UNCHANGED <<fn, S, K, T, r, sigma, option_type, market_price,
                   i, price, curr_vega, diff, n_price, n_vega, evaluated, target>>
    /\ UNCHANGED outside_core

\* The caller has the outcome; nothing of the call remains.
Return ==
    /\ pc = "done"
    /\ pc' = "idle"
    /\ fn' = "none"
    /\ S' = Unset /\ K' = Unset /\ T' = Unset /\ r' = Unset
    /\ sigma' = Unset
    /\ option_type' = "call"
    /\ market_price' = Unset
    /\ i' = 0
    /\ price' = Unset /\ curr_vega' = Unset /\ diff' = Unset
    /\ result' = NoOutcome
    /\ n_price' = 0 /\ n_vega' = 0
    /\ evaluated' = <<>>
    /\ target' = Unset
    /\ UNCHANGED outside_core

Next ==
    \/ Call_black_scholes
    \/ Call_delta
    \/ Call_gamma
    \/ Call_vega
    \/ Call_theta
    \/ Call_rho
    \/ Call_implied_volatility
    \/ RoundTrip
    \/ IV_Evaluate
    \/ IV_Converged
    \/ IV_VegaGuard
    \/ IV_Update
    \/ IV_Exhausted
    \/ Return

Spec == Init /\ [][Next]_allvars

(***************************************************************************)
(* Concurrent calls: each thread runs one call at a time in a frame of its  *)
(* own; bsm_model.py has no module-level variable                           *)
(***************************************************************************)
Arguments(q, sg, k, mp) ==
    [S |-> q.S, K |-> q.K, T |-> q.T, r |-> q.r, sigma |-> sg,
     option_type |-> k, market_price |-> mp]

AtTheMoney == Quote(FInt(100), FInt(100), FInt(1), FDec(500, 1))

FarOutOfTheMoney == Quote(FInt(10), FInt(60), FDec(3300, 1), FDec(500, 1))

\* The calls the threads make: each engine function on one valid quote, at
\* one of two volatilities, the solver on that quote's price, and the solver
\* on a quote whose vega is below the floor.
ThreadCalls ==
    {[fn |-> f, a |-> Arguments(AtTheMoney, FDec(2000, 1), "call", Unset)] :
        f \in {"black_scholes", "gamma", "theta"}}
    \cup
    {[fn |-> f, a |-> Arguments(AtTheMoney, FDec(3000, 1), "put", Unset)] :
        f \in {"delta", "vega", "rho"}}
    \cup
    {[fn |-> "implied_volatility",
      a |-> Arguments(AtTheMoney, Unset, "call",
                      black_scholes(FInt(100), FInt(100), FInt(1), FDec(500, 1),
                                    FDec(2000, 1), "call").v)],
     [fn |-> "implied_volatility",
      a |-> Arguments(FarOutOfTheMoney, Unset, "call", FDec(1, 1))]}

\* the state outside the threads' frames
outside_calls == <<vars, store, page>>

\* d1 kept in one slot for every thread, the frame of the first
D1Slot_shared(th) == CHOOSE x \in Threads : \A y \in Threads : x <= y

\* d1 is a local: the frame that holds the d1 of the call of thread th
D1Slot(th) == th

\* the solver's local sigma in the frame of thread th
SigmaOf(th) == calls[th].sigma

\* The call is entered: the arguments are bound, and the solver's sigma is set
\* (line 104).
T_Call(th) ==
    /\ calls[th].pc = "idle"
    /\ \E c \in ThreadCalls :
          calls' = [calls EXCEPT ![th] =
              IF c.fn = "implied_volatility"
              THEN Frame("loop", c.fn, c.a, InitialGuess, Unset, 0, Unset, Unset, Unset,
                         NoOutcome)
              ELSE Frame("d1", c.fn, c.a, c.a.sigma, Unset, 0, Unset, Unset, Unset,
                         NoOutcome)]
    /\ UNCHANGED outside_calls

\* The d1 line of the function of frame fr
D1Of(fr) ==
    CASE fr.fn = "black_scholes" -> black_scholes_d1(fr.S, fr.K, fr.T, fr.r, fr.sigma)
      [] fr.fn = "delta" -> delta_d1(fr.S, fr.K, fr.T, fr.r, fr.sigma)
      [] fr.fn = "gamma" -> gamma_d1(fr.S, fr.K, fr.T, fr.r, fr.sigma)
      [] fr.fn = "vega" -> vega_d1(fr.S, fr.K, fr.T, fr.r, fr.sigma)
      [] fr.fn = "theta" -> theta_d1(fr.S, fr.K, fr.T, fr.r, fr.sigma)
      [] fr.fn = "rho" -> rho_d1(fr.S, fr.K, fr.T, fr.r, fr.sigma)

\* The lines after the d1 line of the function of frame fr, d being its d1
BodyOf(fr, d) ==
    CASE fr.fn = "black_scholes" ->
            black_scholes_from(fr.S, fr.K, fr.T, fr.r, fr.sigma, fr.option_type, d)
      [] fr.fn = "delta" -> delta_from(fr.option_type, d)
      [] fr.fn = "gamma" -> gamma_from(fr.S, fr.T, fr.sigma, d)
      [] fr.fn = "vega" -> vega_from(fr.S, fr.T, d)
      [] fr.fn = "theta" ->
            theta_from(fr.S, fr.K, fr.T, fr.r, fr.sigma, fr.option_type, d)
      [] fr.fn = "rho" ->
            rho_from(fr.K, fr.T, fr.r, fr.option_type, rho_d2(d, fr.T, fr.sigma))

\* An engine function computes its local d1.
T_D1(th) ==
    /\ calls[th].pc = "d1"
    /\ calls' = [calls EXCEPT ![D1Slot(th)].d1 = D1Of(calls[th]), ![th].pc = "body"]
    /\ UNCHANGED outside_calls

\* An engine function computes its result from its arguments and d1.
T_Body(th) ==
    /\ calls[th].pc = "body"
    /\ calls' = [calls EXCEPT ![th].result = BodyOf(calls[th], calls[D1Slot(th)].d1),
                              ![th].pc = "done"]
    /\ UNCHANGED outside_calls

\* lines 107-110 in the frame of thread th, p and v being the outcomes of the
\* two calls
T_Evaluated(th, p, v) ==
    IF p.t = "raise"
    THEN calls' = [calls EXCEPT ![th].result = p, ![th].pc = "done"]
    ELSE calls' = [calls EXCEPT ![th].price = p.v,
                                ![th].curr_vega = v.v,
                                ![th].diff = FSub(p.v, calls[th].market_price),
                                ![th].pc = "test"]

\* line 106 with lines 107-110, or with line 122 when the passes are used up
T_Pass(th) ==
    /\ calls[th].pc = "loop"
    /\ IF calls[th].i < ITERATIONS
       THEN T_Evaluated(th,
                black_scholes(calls[th].S, calls[th].K, calls[th].T, calls[th].r,
                              SigmaOf(th), calls[th].option_type),
                vega(calls[th].S, calls[th].K, calls[th].T, calls[th].r, SigmaOf(th)))
       ELSE calls' = [calls EXCEPT ![th].result = ReturnedNone, ![th].pc = "done"]
    /\ UNCHANGED outside_calls

T_IsConverged(th) == FLt(FAbs(calls[th].diff), TOLERENCE)

T_IsVegaTooSmall(th) == FLt(FAbs(calls[th].curr_vega), VegaFloor)

\* lines 113-114
T_Converged(th) ==
    /\ calls[th].pc = "test"
    /\ T_IsConverged(th)
    /\ calls' = [calls EXCEPT ![th].result = Returned(SigmaOf(th)), ![th].pc = "done"]
    /\ UNCHANGED outside_calls

\* lines 117-118
T_VegaGuard(th) ==
    /\ calls[th].pc = "test"
    /\ ~T_IsConverged(th)
    /\ T_IsVegaTooSmall(th)
    /\ calls' = [calls EXCEPT ![th].result = ReturnedNone, ![th].pc = "done"]
    /\ UNCHANGED outside_calls

\* line 120 and the loop's next i
T_Update(th) ==
    /\ calls[th].pc = "test"
    /\ ~T_IsConverged(th)
    /\ ~T_IsVegaTooSmall(th)
    /\ calls' = [calls EXCEPT
          ![th].sigma = FSub(SigmaOf(th), FDiv(calls[th].diff, calls[th].curr_vega)),
          ![th].i = calls[th].i + 1,
          ![th].pc = "loop"]
    /\ UNCHANGED outside_calls

\* The caller has the outcome; the frame is gone.
T_Return(th) ==
    /\ calls[th].pc = "done"
    /\ calls' = [calls EXCEPT ![th] = IdleFrame]
    /\ UNCHANGED outside_calls

ConcurrentNext ==
    \E th \in Threads :
        \/ T_Call(th)
        \/ T_D1(th)
        \/ T_Body(th)
        \/ T_Pass(th)
        \/ T_Converged(th)
        \/ T_VegaGuard(th)
        \/ T_Update(th)
        \/ T_Return(th)

ConcurrentSpec == Init /\ [][ConcurrentNext]_allvars

(***************************************************************************)
(* The scenario store of database.py                                        *)
(***************************************************************************)
\* the saves of one run
MaxSaves == 3

\* SQL NULL
Null == [k |-> "null", neg |-> FALSE, m |-> <<>>]

\* A Python float bound to a parameter: SQLite stores the double as it is,
\* and a NaN as NULL.
BindReal(x) == IF x.k = "nan" THEN Null ELSE x

\* the n decimal digits of x as character codes, zero padded
Digits(x, n) == [ix \in 1..n |-> 48 + ((x \div (10 ^ (n - ix))) % 10)]

\* A datetime bound to a parameter: sqlite3 stores str(datetime), that is
\* "YYYY-MM-DD HH:MM:SS" followed by ".ffffff" unless the microsecond is 0.
\* The model's datetimes share the date, hour and minute and the text is
\* kept from the seconds on.
BindDatetime(now) ==
    IF now.microsecond = 0
    THEN Digits(now.second, 2)
    ELSE Digits(now.second, 2) \o <<46>> \o Digits(now.microsecond, 6)

\* memcmp order of two texts (the BINARY collation)
RECURSIVE TextLess(_, _)
TextLess(a, b) ==
    IF a = <<>> THEN b # <<>>
    ELSE IF b = <<>> THEN FALSE
    ELSE IF Head(a) = Head(b) THEN TextLess(Tail(a), Tail(b))
    ELSE Head(a) < Head(b)

\* lines 55-58: the row the INSERT makes of data_dict d, with rowid n
InsertedRow(d, n) ==
    [id |-> n,
     timestamp |-> BindDatetime(d.timestamp),
     spot_price |-> BindReal(d.S),
     strike_price |-> BindReal(d.K),
     time_to_maturity |-> BindReal(d.T),
     risk_free_rate |-> BindReal(d.r),
     volatility |-> BindReal(d.sigma),
     call_price |-> BindReal(d.call_price),
     put_price |-> BindReal(d.put_price),
     call_delta |-> BindReal(d.call_delta),
     put_delta |-> BindReal(d.put_delta),
     gamma |-> BindReal(d.gamma),
     vega |-> BindReal(d.vega)]

\* lines 26-33: the NOT NULL columns of row w all hold a value
NotNullHolds(w) ==
    Null \notin {w.spot_price, w.strike_price, w.time_to_maturity, w.risk_free_rate,
                 w.volatility, w.call_price, w.put_price}

\* ORDER BY timestamp ASC, the other way round
OrderedByTimestamp_ascending(rows) ==
    \A a \in 1..Len(rows) : \A b \in 1..Len(rows) :
        a < b => ~TextLess(rows[b].timestamp, rows[a].timestamp)

\* line 73, ORDER BY timestamp DESC: no row comes before a row with a
\* greater timestamp
OrderedByTimestamp(rows) ==
    \A a \in 1..Len(rows) : \A b \in 1..Len(rows) :
        a < b => ~TextLess(rows[a].timestamp, rows[b].timestamp)

\* every order of the rows
Orderings(rows) ==
    {[ix \in 1..Len(rows) |-> rows[p[ix]]] : p \in Permutations(1..Len(rows))}

\* lines 15-43: CREATE TABLE IF NOT EXISTS, run at import (line 80) and by
\* any later call
create_tables ==
    /\ db_created' = TRUE
    /\ IF db_created
       THEN UNCHANGED <<bsm_scenarios, sqlite_sequence>>
       ELSE bsm_scenarios' = <<>> /\ sqlite_sequence' = 0
    /\ last_call' = "create_tables"
    /\ UNCHANGED <<save_calls, history_df>>
    /\ UNCHANGED <<vars, calls, page>>

\* lines 46-64; the module is imported before the call, so the table is there.
\* A row that breaks a NOT NULL constraint is refused (sqlite3.IntegrityError).
save_scenario(data_dict) ==
    /\ db_created
    /\ Len(save_calls) < MaxSaves
    /\ save_calls' = Append(save_calls, data_dict)
    /\ IF NotNullHolds(InsertedRow(data_dict, sqlite_sequence + 1))
       THEN /\ bsm_scenarios' =
                  Append(bsm_scenarios, InsertedRow(data_dict, sqlite_sequence + 1))
            /\ sqlite_sequence' = sqlite_sequence + 1
       ELSE UNCHANGED <<bsm_scenarios, sqlite_sequence>>
    /\ last_call' = "save_scenario"
    /\ UNCHANGED <<db_created, history_df>>
    /\ UNCHANGED <<vars, calls, page>>

\* lines 67-76: rows with equal timestamps come in an order SQL leaves open
load_scenarios ==
    /\ db_created
    /\ history_df' \in {o \in Orderings(bsm_scenarios) : OrderedByTimestamp(o)}
    /\ last_call' = "load_scenarios"
    /\ UNCHANGED <<db_created, bsm_scenarios, sqlite_sequence, save_calls>>
    /\ UNCHANGED <<vars, calls, page>>

\* datetime.now() at the saves of one minute
Clock ==
    {[second |-> 9, microsecond |-> 0],
     [second |-> 9, microsecond |-> 500000],
     [second |-> 10, microsecond |-> 0]}

\* 1_BSM_Pricer.py lines 220-233, without the timestamp: the scenario of the
\* sidebar's inputs
PricerScenario(q, sg) ==
    [S |-> q.S, K |-> q.K, T |-> q.T, r |-> q.r, sigma |-> sg,
     call_price |-> black_scholes(q.S, q.K, q.T, q.r, sg, "call").v,
     put_price |-> black_scholes(q.S, q.K, q.T, q.r, sg, "put").v,
     call_delta |-> delta(q.S, q.K, q.T, q.r, sg, "call").v,
     put_delta |-> delta(q.S, q.K, q.T, q.r, sg, "put").v,
     gamma |-> gamma(q.S, q.K, q.T, q.r, sg).v,
     vega |-> vega(q.S, q.K, q.T, q.r, sg).v]

\* the sidebar's defaults, and the at-the-money quote
PricerScenarios ==
    {PricerScenario(Quote(FInt(40), FInt(45), FDec(3300, 1), FDec(300, 1)), FDec(4000, 1)),
     PricerScenario(AtTheMoney, FDec(2000, 1))}

\* the data_dicts the pricer page passes
ScenarioData ==
    {[timestamp |-> now] @@ ps : now \in Clock, ps \in PricerScenarios}

StoreNext ==
    \/ create_tables
    \/ \E data_dict \in ScenarioData : save_scenario(data_dict)
    \/ load_scenarios

StoreSpec == Init /\ [][StoreNext]_allvars

(***************************************************************************)
(* The page pages/2_Implied_Volatility.py                                   *)
(***************************************************************************)
\* Tickers, as the characters of their symbols
NVDA == <<"N", "V", "D", "A">>

CSCO == <<"C", "S", "C", "O">>

Tickers == {NVDA, CSCO}

\* the character of the decimal digit n
DigitChar(n) == <<"0", "1", "2", "3", "4", "5", "6", "7", "8", "9">>[n + 1]

\* An expiry the market lists: its date as YYMMDD and the whole days from
\* today to it (lines 63-65 and 162-164), today being 2026-11-02.
Expiry(yymmdd, n) ==
    [date |-> [ix \in 1..6 |-> DigitChar((yymmdd \div (10 ^ (6 - ix))) % 10)], days |-> n]

Yesterday == Expiry(261101, -1)

Today == Expiry(261102, 0)

Tomorrow == Expiry(261103, 1)

InTwoDays == Expiry(261104, 2)

NextMonth == Expiry(261202, 30)

\* the contractSymbol of a listed option: ticker, expiry date, C or P, and the
\* strike in thousandths on 8 digits
ContractSymbol(tk, e, side, strike) ==
    tk \o e.date \o <<side>> \o [ix \in 1..8 |-> DigitChar(((1000 * strike) \div (10 ^ (8 - ix))) % 10)]

\* Rows of an option chain: one with a two-sided quote, one with a last price
\* only, one whose volume and open interest equal the page's minimums, and
\* one without any price.
ChainRow(kind, tk, e, side) ==
    CASE kind = "quoted" ->
            [contractSymbol |-> ContractSymbol(tk, e, side, 100), strike |-> FInt(100),
             volume |-> 50, openInterest |-> 100,
             bid |-> FDec(49000, 1), ask |-> FDec(51000, 1), lastPrice |-> FInt(5)]
      [] kind = "unquoted" ->
            [contractSymbol |-> ContractSymbol(tk, e, side, 110), strike |-> FInt(110),
             volume |-> 50, openInterest |-> 100,
             bid |-> Zero, ask |-> Zero, lastPrice |-> FDec(15000, 1)]
      [] kind = "thin" ->
            [contractSymbol |-> ContractSymbol(tk, e, side, 120), strike |-> FInt(120),
             volume |-> 10, openInterest |-> 20,
             bid |-> FDec(4000, 1), ask |-> FDec(6000, 1), lastPrice |-> FDec(5000, 1)]
      [] kind = "dead" ->
            [contractSymbol |-> ContractSymbol(tk, e, side, 130), strike |-> FInt(130),
             volume |-> 50, openInterest |-> 100,
             bid |-> Zero, ask |-> Zero, lastPrice |-> Zero]

\* the chains the market returns, by the kinds of their rows; the empty one
\* also stands for None
ChainShapes == {<<>>, <<"quoted">>, <<"thin", "unquoted">>, <<"dead">>}

\* get_option_chain_for_date: one side of the chain of ticker tk at expiry e
Chain(shape, tk, e, side) == [ix \in 1..Len(shape) |-> ChainRow(shape[ix], tk, e, side)]

\* get_stock_price
SpotPrice == FInt(100)

\* the sidebar's defaults (lines 141-147)
RiskFreeRate == FDec(500, 1)

MinVolume == 10

MinOpenInterest == 20

\* lines 83-84 and 186-190: the midpoint of bid and ask, or the last price
MarketPrice(w) ==
    IF FLt(Zero, w.bid) /\ FLt(Zero, w.ask)
    THEN FDiv(FAdd(w.bid, w.ask), FInt(2))
    ELSE w.lastPrice

\* lines 69 and 170
YearsTo(n) == FDiv(FInt(n), FDec(3652500, 1))

\* the invocation bsm.implied_volatility(marketPrice, S, strike, T, r, kind) for
\* row w of the chain `side`, n being the days to the row's expiry
Invocation(w, side, n, years, kind) ==
    [chain |-> side, days_to_expiry |-> n, market_price |-> MarketPrice(w),
     S |-> SpotPrice, K |-> w.strike, T |-> years, r |-> RiskFreeRate,
     option_type |-> kind]

\* line 90: 'C' in contractSymbol
HasC(symbol) == \E ix \in 1..Len(symbol) : symbol[ix] = "C"

\* lines 81-85: the rows of the surface that pass the filters
SurfaceRows(rows) ==
    LET Keep(w) == /\ w.volume >= MinVolume
                   /\ w.openInterest >= MinOpenInterest
                   /\ FLt(Zero, MarketPrice(w))
    IN  SelectSeq(rows, Keep)

\* line 90: the kind of a whole chain, from the symbol of its first row
SurfaceKind(rows, side) == IF HasC(rows[1].contractSymbol) THEN "call" ELSE "put"

\* lines 74-92 for one side of one expiry: rows are the filtered rows
SurfaceChainCalls(rows, side, e) ==
    IF rows = <<>> THEN <<>>
    ELSE [ix \in 1..Len(rows) |->
            Invocation(rows[ix], side, e.days, YearsTo(e.days), SurfaceKind(rows, side))]

\* lines 62-96: the invocations of the loop over the expirations
RECURSIVE SurfaceCalls(_, _, _, _)
SurfaceCalls(tk, expirations, cs, ps) ==
    IF expirations = <<>> THEN <<>>
    ELSE (IF Head(expirations).days < 2 THEN <<>>
          ELSE SurfaceChainCalls(SurfaceRows(Chain(cs, tk, Head(expirations), "C")),
                                 "calls", Head(expirations))
               \o SurfaceChainCalls(SurfaceRows(Chain(ps, tk, Head(expirations), "P")),
                                    "puts", Head(expirations)))
         \o SurfaceCalls(tk, Tail(expirations), cs, ps)

\* the expiries the market lists for a ticker
ExpiryLists == {<<Today, NextMonth>>, <<Tomorrow, InTwoDays>>, <<InTwoDays, NextMonth>>,
                <<NextMonth>>}

outside_page == <<vars, calls, store>>

\* lines 251-255 with lines 50-96: the 3D view runs generate_surface_data
generate_surface_data(tk, expirations, cs, ps) ==
    /\ page_pc = "idle"
    /\ page_pc' = "plot"
    /\ view_choice' = "3D Volatility Surface"
    /\ fetched' = [ticker |-> tk, S |-> SpotPrice, expiries |-> expirations,
                   calls |-> cs, puts |-> ps]
    /\ iv_calls' = SurfaceCalls(tk, expirations, cs, ps)
    /\ UNCHANGED <<page_T, warned, page_error>>
    /\ UNCHANGED outside_page

\* lines 152-175: the 2D view fetches the chain of the selected expiry and
\* binds T unless the expiry is less than a day away
Smile_Select(tk, e, cs, ps) ==
    /\ page_pc = "idle"
    /\ page_pc' = "calls"
    /\ view_choice' = "2D Volatility Smile"
    /\ fetched' = [ticker |-> tk, S |-> SpotPrice, expiries |-> <<e>>,
                   calls |-> cs, puts |-> ps]
    /\ IF e.days < 1
       THEN warned' = TRUE /\ UNCHANGED page_T
       ELSE page_T' = YearsTo(e.days) /\ UNCHANGED warned
    /\ UNCHANGED <<iv_calls, page_error>>
    /\ UNCHANGED outside_page

\* lines 182-192 and 204-213: the rows of the smile that pass the filters
SmileRows(rows) ==
    LET Keep(w) == /\ w.volume > MinVolume
                   /\ w.openInterest > MinOpenInterest
                   /\ FLt(Zero, MarketPrice(w))
    IN  SelectSeq(rows, Keep)

\* lines 194-196 and 214-216: apply evaluates the lambda on each row; the
\* lambda looks T up when it runs, and an unbound T is a NameError that ends
\* the run.  On an empty frame apply tries the lambda once and drops its
\* exception.
Smile_Apply(rows, side, kind, next_pc) ==
    IF rows # <<>> /\ page_T = Unbound
    THEN /\ page_error' = "NameError"
         /\ page_pc' = "crashed"
         /\ UNCHANGED iv_calls
    ELSE /\ iv_calls' = iv_calls \o
                [ix \in 1..Len(rows) |->
                    Invocation(rows[ix], side, fetched.expiries[1].days, page_T, kind)]
         /\ page_pc' = next_pc
         /\ UNCHANGED page_error

\* lines 178-199
Smile_Calls ==
    /\ page_pc = "calls"
    /\ Smile_Apply(SmileRows(Chain(fetched.calls, fetched.ticker, fetched.expiries[1], "C")),
                   "calls", "call", "puts")
    /\ UNCHANGED <<view_choice, fetched, page_T, warned>>
    /\ UNCHANGED outside_page

\* lines 202-219
Smile_Puts ==
    /\ page_pc = "puts"
    /\ Smile_Apply(SmileRows(Chain(fetched.puts, fetched.ticker, fetched.expiries[1], "P")),
                   "puts", "put", "plot")
    /\ UNCHANGED <<view_choice, fetched, page_T, warned>>
    /\ UNCHANGED outside_page

\* The run is over, plotted or ended by its exception; the next run of the
\* script starts with no name bound.
Rerun ==
    /\ page_pc \in {"plot", "crashed"}
    /\ page_pc' = "idle"
    /\ view_choice' = "none"
    /\ fetched' = NothingFetched
    /\ page_T' = Unbound
    /\ warned' = FALSE
    /\ iv_calls' = <<>>
    /\ page_error' = "none"
    /\ UNCHANGED outside_page

PageNext ==
    \/ \E tk \in Tickers : \E expirations \in ExpiryLists :
          \E cs \in ChainShapes : \E ps \in ChainShapes :
            generate_surface_data(tk, expirations, cs, ps)
    \/ \E tk \in Tickers : \E e \in {Yesterday, Today, Tomorrow, InTwoDays, NextMonth} :
          \E cs \in ChainShapes : \E ps \in ChainShapes :
            Smile_Select(tk, e, cs, ps)
    \/ Smile_Calls
    \/ Smile_Puts
    \/ Rerun

PageSpec == Init /\ [][PageNext]_allvars

(***************************************************************************)
(* Properties of the engine's handling of the option kind                   *)
(***************************************************************************)
\* The spellings of the two kinds: 'call' and 'put' in any case
RecognisedKinds == {"call", "Call", "CALL", "put", "Put", "PUT"}

KindFunctions == {"black_scholes", "delta", "theta", "rho"}

Done(f) == pc = "done" /\ fn = f

\* C1: black_scholes, delta, theta and rho, called with a kind that is neither
\* call nor put, raise the invalid-kind error (ValueError in the code) whatever
\* the other arguments are; they return no value.
C1_InvalidKindRaises ==
    \A f \in KindFunctions :
        (Done(f) /\ option_type \notin RecognisedKinds)
            => (result.t = "raise" /\ result.exc = "ValueError")

\* rho has been called with the kind "straddle" on a quote with T <= 0, and
\* has raised.
C1_Witness ==
    /\ Done("rho")
    /\ option_type = "straddle"
    /\ ~Positive(T)
    /\ result = Raised("ValueError")

(***************************************************************************)
(* Properties of the engine on degenerate inputs                            *)
(***************************************************************************)
EngineFunctions == {"black_scholes", "delta", "gamma", "vega", "theta", "rho"}

\* x <= 0
NonPositive(x) == IsFin(x) /\ ~Positive(x)

\* C2: an engine function called with T <= 0 or sigma <= 0 (and a kind it
\* recognises) fails with a DegenerateInputs error; it returns no number.
C2_DegenerateInputsRaise ==
    \A f \in EngineFunctions :
        (/\ Done(f)
         /\ option_type \in RecognisedKinds
         /\ NonPositive(T) \/ NonPositive(sigma))
            => (result.t = "raise" /\ result.exc = "DegenerateInputs")

(***************************************************************************)
(* Properties of the solver's loop                                          *)
(***************************************************************************)
Solving == fn = "implied_volatility"

\* |x - market_price| < 1e-5
WithinTolerance(x) == FLt(FAbs(FSub(x, market_price)), FDec(1000, 2))

\* |x| < 1e-6
BelowVegaFloor(x) == FLt(FAbs(x), FDec(100, 2))

\* C3: the solver returns sigma_n at the first iteration n whose price is
\* within 1e-5 of the market price: an evaluation within the tolerance is the
\* last one and its sigma is what is returned, and the price of every
\* returned sigma, computed anew, is within 1e-5 of the market price.
C3_ReturnsFirstConverged ==
    Solving =>
        /\ \A n \in 1..Len(evaluated) :
               WithinTolerance(evaluated[n].price)
                   => /\ n = Len(evaluated)
                      /\ pc \in {"test", "done"}
                      /\ pc = "done" => result = Returned(evaluated[n].sigma)
        /\ result.t = "value"
               => /\ evaluated # <<>>
                  /\ result.v = Last(evaluated).sigma
                  /\ WithinTolerance(black_scholes(S, K, T, r, result.v, option_type).v)

\* The solver has returned a volatility after more than two updates.
C3_Witness ==
    /\ Done("implied_volatility")
    /\ result.t = "value"
    /\ Len(evaluated) > 3
    /\ WithinTolerance(Last(evaluated).price)
    /\ ~WithinTolerance(evaluated[1].price)

\* C4: the solver makes at most 100 passes, so at most 100 evaluations of the
\* price and of vega, each pass being one of each; when the passes are used
\* up without a price within the tolerance it returns None.
C4_IterationCap ==
    Solving =>
        /\ i <= 100 /\ n_price <= 100 /\ n_vega <= 100
        /\ Len(evaluated) = n_vega
        /\ pc = "loop" => n_price = i
        /\ pc = "test" => (n_price = i + 1 /\ i < 100)
        /\ (/\ pc = "done"
            /\ i = 100
            /\ \A n \in 1..Len(evaluated) : ~WithinTolerance(evaluated[n].price))
               => result = ReturnedNone

\* The solver has made 100 passes, none within the tolerance, and has returned
\* None.
C4_Witness ==
    /\ Done("implied_volatility")
    /\ n_price = 100 /\ n_vega = 100 /\ i = 100
    /\ result = ReturnedNone

\* C5: when |vega(sigma_n)| < 1e-6 at a pass, the solver stops at that pass
\* and returns None: it makes no update from it and returns no sigma.
C5_VegaGuardStops ==
    Solving =>
        \A n \in 1..Len(evaluated) :
            BelowVegaFloor(evaluated[n].vega)
                => /\ n = Len(evaluated)
                   /\ pc \in {"test", "done"}
                   /\ pc = "done" => result = ReturnedNone

\* The Newton step from the n-th evaluation
NewtonFrom(e) == FSub(e.sigma, FDiv(FSub(e.price, market_price), e.vega))

\* C6: the first volatility evaluated is 0.5, each later one is the one before
\* it less (price - market price) / vega as evaluated there, and the solver
\* holds and returns no volatility but these.
C6_NewtonIterates ==
    Solving =>
        /\ evaluated # <<>> => evaluated[1].sigma = FDec(5000, 1)
        /\ \A n \in 1..(Len(evaluated) - 1) :
               evaluated[n + 1].sigma = NewtonFrom(evaluated[n])
        /\ pc = "test" => sigma = Last(evaluated).sigma
        /\ pc = "loop" =>
               sigma = IF evaluated = <<>> THEN FDec(5000, 1)
                                          ELSE NewtonFrom(Last(evaluated))
        /\ result.t = "value" => result.v = Last(evaluated).sigma

\* The solver has evaluated four volatilities or more, all different.
C6_Witness ==
    /\ Solving
    /\ Len(evaluated) > 3
    /\ \A n \in 1..3 : IsFin(evaluated[n + 1].sigma) /\ evaluated[n + 1].sigma # evaluated[n].sigma

\* C7: the solver, called with a kind that is neither call nor put, ends with
\* the engine's invalid-kind error (ValueError in the code): it returns
\* neither None nor a volatility.
C7_SolverSurfacesInvalidKind ==
    (Solving /\ option_type \notin RecognisedKinds)
        => /\ pc \in {"loop", "done"}
           /\ result.t \notin {"value", "None"}
           /\ pc = "done" => result = Raised("ValueError")

\* The solver was called with the kind "straddle" and has ended with the
\* engine's error, before any call of vega.
C7_Witness ==
    /\ Done("implied_volatility")
    /\ option_type = "straddle"
    /\ result = Raised("ValueError")
    /\ n_price = 1 /\ n_vega = 0

\* C8: the solver returns None only on well-formed inputs that do not
\* converge: called with T <= 0 it ends with the engine's DegenerateInputs
\* error, not with None.
C8_NoneOnlyOnWellFormed ==
    (Done("implied_volatility") /\ option_type \in RecognisedKinds)
        => /\ result = ReturnedNone => Positive(T)
           /\ NonPositive(T) => (result.t = "raise" /\ result.exc = "DegenerateInputs")

(***************************************************************************)
(* Put-call parity and the round trip                                       *)
(***************************************************************************)
\* call - put - (S - K e^(-rT)) for the quote and volatility in hand
ParityGap ==
    FSub(FSub(black_scholes(S, K, T, r, sigma, "call").v,
              black_scholes(S, K, T, r, sigma, "put").v),
         FSub(S, FMul(K, FExp(FMul(FNeg(r), T)))))

RoundTripOfSpec ==
    /\ Solving
    /\ S = FInt(100) /\ K = FInt(100) /\ T = FInt(1) /\ r = FDec(500, 1)
    /\ target = FDec(2000, 1)
    /\ option_type \in RecognisedKinds

\* C10: the price of S = 100, K = 100, T = 1, r = 0.05 at sigma = 0.2, handed
\* to the solver with the same S, K, T, r and kind, comes back as a
\* volatility within 1e-4 of 0.2.
C10_RoundTripRecovers ==
    RoundTripOfSpec =>
        /\ market_price = black_scholes(S, K, T, r, target, option_type).v
        /\ pc = "done" => /\ result.t = "value"
                          /\ FLt(FAbs(FSub(result.v, target)), FDec(1, 1))

\* That round trip has ended, with a call, after passes that were not yet
\* within the tolerance.
C10_Witness ==
    /\ RoundTripOfSpec
    /\ pc = "done"
    /\ Lower(option_type) = "call"
    /\ result.t = "value"
    /\ Len(evaluated) > 1

(***************************************************************************)
(* The closed form of the price, as the design states it                    *)
(***************************************************************************)
\* d1 = (ln(S/K) + (r + sigma^2 / 2) T) / (sigma sqrt(T)) for the arguments in hand
FormulaD1 ==
    FDiv(FAdd(FLog(FDiv(S, K)),
              FMul(FAdd(r, FDiv(FMul(sigma, sigma), FInt(2))), T)),
         FMul(sigma, FSqrt(T)))

\* d2 = d1 - sigma sqrt(T)
FormulaD2(d) == Last(<<d, FSub(d, FMul(sigma, FSqrt(T)))>>)

\* K e^(-rT)
FormulaStrike == FMul(K, FExp(FNeg(FMul(r, T))))

\* S Phi(d1) - K e^(-rT) Phi(d2)
FormulaCall(d, e) ==
    Last(<<d, e, FSub(FMul(S, NormCdf(d)), FMul(FormulaStrike, NormCdf(e)))>>)

\* K e^(-rT) Phi(-d2) - S Phi(-d1)
FormulaPut(d, e) ==
    Last(<<d, e, FSub(FMul(FormulaStrike, NormCdf(FNeg(e))), FMul(S, NormCdf(FNeg(d))))>>)

FormulaCallOf(d) == Last(<<d, FormulaCall(d, FormulaD2(d))>>)

FormulaPutOf(d) == Last(<<d, FormulaPut(d, FormulaD2(d))>>)

ValidQuote == Positive(S) /\ Positive(K) /\ Positive(T) /\ Positive(sigma)

\* C11: for S, K, T, sigma above 0, black_scholes returns
\* S Phi(d1) - K e^(-rT) Phi(d2) for a call and K e^(-rT) Phi(-d2) - S Phi(-d1)
\* for a put, with d1 = (ln(S/K) + (r + sigma^2/2) T) / (sigma sqrt(T)) and
\* d2 = d1 - sigma sqrt(T): the kind picks the one formula.
C11_PriceFormulas ==
    (Done("black_scholes") /\ ValidQuote)
        => /\ option_type \in {"call", "Call", "CALL"}
                => result = Returned(FormulaCallOf(FormulaD1))
           /\ option_type \in {"put", "Put", "PUT"}
                => result = Returned(FormulaPutOf(FormulaD1))

\* A put of a valid quote has been priced, and the call's formula gives another
\* value for it.
C11_Witness ==
    /\ Done("black_scholes")
    /\ ValidQuote
    /\ option_type = "Put"
    /\ result.t = "value"
    /\ result.v # FormulaCallOf(FormulaD1)
    /\ Positive(result.v)

(***************************************************************************)
(* d1 and d2 across the engine's functions                                  *)
(***************************************************************************)
\* The d1 each function computes from the arguments in hand
D1s ==
    { black_scholes_d1(S, K, T, r, sigma), delta_d1(S, K, T, r, sigma),
      gamma_d1(S, K, T, r, sigma), vega_d1(S, K, T, r, sigma),
      theta_d1(S, K, T, r, sigma), rho_d1(S, K, T, r, sigma) }

\* The d2 black_scholes, theta and rho compute from a d1
D2s(d) ==
    Last(<<d, { black_scholes_d2(d, T, sigma), theta_d2(d, T, sigma),
                rho_d2(d, T, sigma) }>>)

\* C12: on the same S, K, T, r, sigma the six functions compute one d1, and
\* black_scholes, theta and rho one d2 from it.  (d1 and d2 take no kind, so
\* the arguments of the calls of vega are all the arguments there are.)
C12_SameD1D2 ==
    Done("vega") =>
        LET ds == D1s
        IN  /\ Cardinality(ds) = 1
            /\ \A d \in ds : Cardinality(D2s(d)) = 1

\* vega has been called on a valid quote whose d1 is a number other than 0 and
\* whose d2 is another number.
C12_Witness ==
    /\ Done("vega")
    /\ ValidQuote
    /\ \A d \in D1s : IsFin(d) /\ ~IsZero(d) /\ d \notin D2s(d)

(***************************************************************************)
(* The solver's use of the engine                                           *)
(***************************************************************************)
\* C14: at each pass the price and vega the solver holds are what
\* black_scholes(S, K, T, r, sigma, kind) and vega(S, K, T, r, sigma) return
\* for the sigma of that pass, and S, K, T, r, the kind and the market price
\* stay as the caller passed them for the whole call.
C14_SolverUsesEngine ==
    /\ [](( Solving /\ pc = "test") =>
             /\ price = black_scholes(S, K, T, r, sigma, option_type).v
             /\ curr_vega = vega(S, K, T, r, sigma).v
             /\ diff = FSub(price, market_price)
             /\ Last(evaluated) = [sigma |-> sigma, price |-> price, vega |-> curr_vega])
    /\ [][(Solving /\ Solving') =>
             UNCHANGED <<S, K, T, r, option_type, market_price>>]_vars

\* The solver is at its third pass or later and holds a price and a vega that
\* are numbers.
C14_Witness ==
    /\ Solving
    /\ pc = "test"
    /\ i > 1
    /\ IsFin(price) /\ ~IsZero(price)
    /\ IsFin(curr_vega) /\ ~IsZero(curr_vega)

\* The call implied_volatility(0.0001, 100, 100, 0.001, 0.05, 'call')
NearExpiryCall ==
    /\ Solving
    /\ market_price = FDec(1, 1)
    /\ S = FInt(100) /\ K = FInt(100) /\ T = FDec(10, 1) /\ r = FDec(500, 1)
    /\ option_type = "call"

\* C15: implied_volatility(0.0001, 100, 100, 0.001, 0.05, 'call') returns
\* None: no pass has a price within 1e-5 of the market price, and the call
\* ends with None, not with a volatility or an exception.
C15_NearExpiryNotFound ==
    NearExpiryCall =>
        /\ evaluated # <<>> => evaluated[1].sigma = FDec(5000, 1)
        /\ \A n \in 1..Len(evaluated) : ~WithinTolerance(evaluated[n].price)
        /\ result.t \notin {"value", "raise"}
        /\ pc = "done" => result = ReturnedNone

\* That call has ended with None after more than ten passes.
C15_Witness ==
    /\ NearExpiryCall
    /\ pc = "done"
    /\ result = ReturnedNone
    /\ Len(evaluated) > 10


(***************************************************************************)
(* C13: concurrent calls                                                    *)
(***************************************************************************)
\* what the call of frame fr returns when it runs alone
AloneResult(fr) ==
    CASE fr.fn = "black_scholes" ->
            black_scholes(fr.S, fr.K, fr.T, fr.r, fr.sigma, fr.option_type)
      [] fr.fn = "delta" -> delta(fr.S, fr.K, fr.T, fr.r, fr.sigma, fr.option_type)
      [] fr.fn = "gamma" -> gamma(fr.S, fr.K, fr.T, fr.r, fr.sigma)
      [] fr.fn = "vega" -> vega(fr.S, fr.K, fr.T, fr.r, fr.sigma)
      [] fr.fn = "theta" -> theta(fr.S, fr.K, fr.T, fr.r, fr.sigma, fr.option_type)
      [] fr.fn = "rho" -> rho(fr.S, fr.K, fr.T, fr.r, fr.sigma, fr.option_type)
      [] fr.fn = "implied_volatility" ->
            implied_volatility(fr.market_price, fr.S, fr.K, fr.T, fr.r, fr.option_type)

\* the call of frame fr as its caller made it: sigma is an input of the engine
\* functions and a local of the solver
CallOf(fr) ==
    [fn |-> fr.fn,
     a |-> [S |-> fr.S, K |-> fr.K, T |-> fr.T, r |-> fr.r,
            sigma |-> IF fr.fn = "implied_volatility" THEN Unset ELSE fr.sigma,
            option_type |-> fr.option_type, market_price |-> fr.market_price]]

\* C13: whatever the interleaving of the steps of concurrent calls, a call that
\* has finished has the result it has when run alone, and two finished calls
\* with equal inputs have equal results.
C13_CallsAreIndependent ==
    /\ \A th \in Threads :
          calls[th].pc = "done"
              => calls[th].result = AloneResult(calls[th])
    /\ \A th \in Threads : \A ot \in Threads :
          (/\ calls[th].pc = "done"
           /\ calls[ot].pc = "done"
           /\ CallOf(calls[th]) = CallOf(calls[ot]))
              => calls[th].result = calls[ot].result

\* One solver call has returned a volatility while another solver call, on
\* other inputs, was between its steps and then stopped at the vega guard.
C13_Witness ==
    /\ calls[1].pc = "done"
    /\ calls[1].fn = "implied_volatility"
    /\ calls[1].result.t = "value"
    /\ calls[1].i > 0
    /\ calls[2].pc = "done"
    /\ calls[2].fn = "implied_volatility"
    /\ calls[2].result = ReturnedNone

(***************************************************************************)
(* C16: the scenario store                                                  *)
(***************************************************************************)
\* the number the decimal digits ds spell
RECURSIVE NumberOf(_)
NumberOf(ds) ==
    IF ds = <<>> THEN 0 ELSE 10 * NumberOf(SubSeq(ds, 1, Len(ds) - 1)) + (Last(ds) - 48)

\* the microseconds since the start of the minute that a stored timestamp names
Microseconds(text) ==
    1000000 * NumberOf(SubSeq(text, 1, 2))
        + (IF Len(text) = 2 THEN 0 ELSE NumberOf(SubSeq(text, 4, 9)))

\* row w holds the values of data_dict d
RowHolds(w, d) ==
    /\ Microseconds(w.timestamp) = 1000000 * d.timestamp.second + d.timestamp.microsecond
    /\ <<w.spot_price, w.strike_price, w.time_to_maturity, w.risk_free_rate, w.volatility>>
            = <<d.S, d.K, d.T, d.r, d.sigma>>
    /\ <<w.call_price, w.put_price, w.call_delta, w.put_delta, w.gamma, w.vega>>
            = <<d.call_price, d.put_price, d.call_delta, d.put_delta, d.gamma, d.vega>>

RowsOf(rows) == {rows[ix] : ix \in 1..Len(rows)}

\* C16: the table holds one row per save_scenario call, with the values of
\* that call and an id of its own; create_tables and load_scenarios leave the
\* rows as they are; load_scenarios returns every row, latest timestamp first.
C16_ScenarioStore ==
    /\ [](/\ Len(bsm_scenarios) = Len(save_calls)
          /\ \A n \in 1..Len(save_calls) : RowHolds(bsm_scenarios[n], save_calls[n])
          /\ \A a \in 1..Len(bsm_scenarios) : \A b \in 1..Len(bsm_scenarios) :
                a # b => bsm_scenarios[a].id # bsm_scenarios[b].id
          /\ last_call = "load_scenarios" =>
                /\ Len(history_df) = Len(bsm_scenarios)
                /\ RowsOf(history_df) = RowsOf(bsm_scenarios)
                /\ \A a \in 1..Len(history_df) : \A b \in 1..Len(history_df) :
                      a < b => Microseconds(history_df[a].timestamp)
                                  >= Microseconds(history_df[b].timestamp))
    /\ [][last_call' \in {"create_tables", "load_scenarios"}
              => bsm_scenarios' = bsm_scenarios]_allvars

\* Three scenarios were saved out of the order of their timestamps, one of
\* them on a whole second, create_tables ran again, and load_scenarios has
\* returned them.
C16_Witness ==
    /\ last_call = "load_scenarios"
    /\ Len(history_df) = 3
    /\ <<history_df[1].id, history_df[2].id, history_df[3].id>> = <<2, 3, 1>>
    /\ Len(history_df[2].timestamp) > Len(history_df[1].timestamp)
    /\ history_df[1].spot_price # history_df[2].spot_price

(***************************************************************************)
(* C17, C18: the callers of the solver on the implied-volatility page       *)
(***************************************************************************)
\* the listed rows of one side of the fetched chain at expiry e that pass the
\* surface's filters
ListedRows(e, side) ==
    SurfaceRows(Chain(IF side = "calls" THEN fetched.calls ELSE fetched.puts,
                      fetched.ticker, e, IF side = "calls" THEN "C" ELSE "P"))

\* C17: generate_surface_data invokes implied_volatility with kind 'call' for
\* every row of a calls chain and with kind 'put' for every row of a puts
\* chain, whatever the ticker.
C17_SurfaceKindMatchesChain ==
    view_choice = "3D Volatility Surface" =>
        /\ \A n \in 1..Len(iv_calls) :
              iv_calls[n].option_type = (IF iv_calls[n].chain = "calls" THEN "call" ELSE "put")
        /\ \A x \in 1..Len(fetched.expiries) : \A side \in {"calls", "puts"} :
              fetched.expiries[x].days >= 2 =>
                \A y \in 1..Len(ListedRows(fetched.expiries[x], side)) :
                    \E n \in 1..Len(iv_calls) :
                        /\ iv_calls[n].chain = side
                        /\ iv_calls[n].days_to_expiry = fetched.expiries[x].days
                        /\ iv_calls[n].K = ListedRows(fetched.expiries[x], side)[y].strike

\* C18: in the 2D view an expiry less than a day away gives the warning and
\* the run goes on without an exception; implied_volatility is only invoked
\* with T = days_to_expiry / 365.25 of the selected expiry, days_to_expiry
\* being at least 1.
C18_NearExpiryDegrades ==
    view_choice = "2D Volatility Smile" =>
        /\ fetched.expiries[1].days < 1 => warned
        /\ page_error = "none"
        /\ \A n \in 1..Len(iv_calls) :
              /\ iv_calls[n].T # Unbound
              /\ iv_calls[n].days_to_expiry = fetched.expiries[1].days
              /\ iv_calls[n].days_to_expiry >= 1
              /\ iv_calls[n].T = YearsTo(iv_calls[n].days_to_expiry)
              /\ Positive(iv_calls[n].T)

====
